---- MODULE Spec2Model ----
(***************************************************************************)
(* The LDtk field-instance decoder of bevy_entitiles                       *)
(* (src/serializing/ldtk/level.rs): FieldInstanceVisitor::visit_map, the   *)
(* key classifier FieldInstanceFieldsVisitor::visit_str, the type-tag      *)
(* normalizer FieldTypeVisitor::visit_str and the untagged FieldValue      *)
(* union.  One behaviour is one call of visit_map on one JSON object: the  *)
(* object is fixed by Init, every action is one iteration of the           *)
(* `while let Some(key) = map.next_key()?` loop (one action per match arm) *)
(* or the code after the loop.                                             *)
(*                                                                         *)
(* Text (keys excepted) is a sequence of one-character strings, so that    *)
(* starts_with, length and hex-digit tests are computed, not assumed.      *)
(***************************************************************************)
EXTENDS Integers, Sequences, FiniteSets, TLC

\* One call of FieldInstanceVisitor::visit_map.
VARIABLES obj, pos, def_uid, identifier, tile, ty, value, result

\* One FieldValue written out and read back.
VARIABLES original, wire, back

\* One document: the FieldInstance lists of its entities.
VARIABLES doc, ent, fld, decoded, docResult

\* TilemapBindGroups::materials and the texture storage it is prepared from.
VARIABLES textures, materials, created, calls, lastCall

fiVars == <<obj, pos, def_uid, identifier, tile, ty, value, result>>

rtVars == <<original, wire, back>>

docVars == <<doc, ent, fld, decoded, docResult>>

bgVars == <<textures, materials, created, calls, lastCall>>

vars == <<fiVars, rtVars, docVars, bgVars>>

(***************************************************************************)
(* JSON values, as the deserializer hands them over.  An object is kept by *)
(* the struct its members match: "enum" {name, variant}, "point" {cx, cy}, *)
(* "ref" {entityIid, layerIid, levelIid, worldIid}, "rect" (a TilesetRect) *)
(* or "other" (members matching none of them).                             *)
(***************************************************************************)
JNull == [k |-> "null", s |-> <<>>, n |-> 0, b |-> FALSE, items |-> <<>>]

JInt(n) == [k |-> "int", s |-> <<>>, n |-> n, b |-> FALSE, items |-> <<>>]

JReal(s) == [k |-> "real", s |-> s, n |-> 0, b |-> FALSE, items |-> <<>>]

JBool(b) == [k |-> "bool", s |-> <<>>, n |-> 0, b |-> b, items |-> <<>>]

JStr(s) == [k |-> "str", s |-> s, n |-> 0, b |-> FALSE, items |-> <<>>]

JObj(shape) == [k |-> "obj", s |-> <<shape>>, n |-> 0, b |-> FALSE, items |-> <<>>]

JArr(items) == [k |-> "arr", s |-> <<>>, n |-> 0, b |-> FALSE, items |-> items]

\* LdtkColor: three 8-bit channels, packed here as r * 65536 + g * 256 + b.
JRgb(r, g, b) == [k |-> "rgb", s |-> <<>>, n |-> (r * 65536) + (g * 256) + b,
                  b |-> FALSE, items |-> <<>>]

(***************************************************************************)
(* Result<T, E>, Option<T>, Nullable<T>, and the errors the decoder makes. *)
(***************************************************************************)
NoFV == [tag |-> "-", j |-> JNull, elems |-> <<>>]

FV(tag, j) == [tag |-> tag, j |-> j, elems |-> <<>>]

FVArray(j, elems) == [tag |-> "Array", j |-> j, elems |-> elems]

NoErr == [kind |-> "-", name |-> "-", tok |-> <<>>, fv |-> NoFV]

Err(kind, name, tok, fv) == [kind |-> kind, name |-> name, tok |-> tok, fv |-> fv]

Ok(v) == [ok |-> TRUE, v |-> v, err |-> NoErr]

Fail(e) == [ok |-> FALSE, v |-> 0, err |-> e]

None(dummy) == [some |-> FALSE, v |-> dummy]

Some(v) == [some |-> TRUE, v |-> v]

NullableNull(dummy) == [present |-> FALSE, data |-> dummy]

NullableData(v) == [present |-> TRUE, data |-> v]

\* A JSON integer outside the i32 range (its digits kept as text).
JBig(s) == [k |-> "big", s |-> s, n |-> 0, b |-> FALSE, items |-> <<>>]

(***************************************************************************)
(* Text literals of the source.                                            *)
(***************************************************************************)
T_LocalEnum == <<"L", "o", "c", "a", "l", "E", "n", "u", "m">>

T_ExternEnum == <<"E", "x", "t", "e", "r", "n", "E", "n", "u", "m">>

T_Array == <<"A", "r", "r", "a", "y">>

T_Int == <<"I", "n", "t">>

T_Float == <<"F", "l", "o", "a", "t">>

T_Bool == <<"B", "o", "o", "l">>

T_String == <<"S", "t", "r", "i", "n", "g">>

T_Multilines == <<"M", "u", "l", "t", "i", "l", "i", "n", "e", "s">>

T_FilePath == <<"F", "i", "l", "e", "P", "a", "t", "h">>

T_Color == <<"C", "o", "l", "o", "r">>

T_Point == <<"P", "o", "i", "n", "t">>

T_EntityRef == <<"E", "n", "t", "i", "t", "y", "R", "e", "f">>

StartsWith(v, p) == Len(v) >= Len(p) /\ SubSeq(v, 1, Len(p)) = p

(***************************************************************************)
(* FieldTypeVisitor::visit_str: the three prefix rules, then exact match.  *)
(***************************************************************************)
\* Variant of the normalizer: LocalEnum matched exactly, not as a prefix.
FieldTypeVisit_ExactLocalEnum(v) ==
    IF v = T_LocalEnum THEN Ok("LocalEnum")
    ELSE IF StartsWith(v, T_ExternEnum) THEN Ok("ExternEnum")
    ELSE IF StartsWith(v, T_Array) THEN Ok("Array")
    ELSE CASE v = T_Int -> Ok("Int")
           [] v = T_Float -> Ok("Float")
           [] v = T_Bool -> Ok("Bool")
           [] v = T_String -> Ok("String")
           [] v = T_Multilines -> Ok("Multilines")
           [] v = T_FilePath -> Ok("FilePath")
           [] v = T_Color -> Ok("Color")
           [] v = T_Point -> Ok("Point")
           [] v = T_EntityRef -> Ok("EntityRef")
           [] OTHER -> Fail(Err("UnknownFieldType", "-", v, NoFV))

FieldTypeVisit(v) ==
    IF StartsWith(v, T_LocalEnum) THEN Ok("LocalEnum")
    ELSE IF StartsWith(v, T_ExternEnum) THEN Ok("ExternEnum")
    ELSE IF StartsWith(v, T_Array) THEN Ok("Array")
    ELSE CASE v = T_Int -> Ok("Int")
           [] v = T_Float -> Ok("Float")
           [] v = T_Bool -> Ok("Bool")
           [] v = T_String -> Ok("String")
           [] v = T_Multilines -> Ok("Multilines")
           [] v = T_FilePath -> Ok("FilePath")
           [] v = T_Color -> Ok("Color")
           [] v = T_Point -> Ok("Point")
           [] v = T_EntityRef -> Ok("EntityRef")
           [] OTHER -> Fail(Err("UnknownFieldType", "-", v, NoFV))

\* FieldType::deserialize: deserialize_str, so only a JSON string is visited.
DeserializeFieldType(j) ==
    IF j.k = "str" THEN FieldTypeVisit(j.s)
    ELSE Fail(Err("InvalidType", "a field type", <<>>, NoFV))

(***************************************************************************)
(* FieldInstanceFieldsVisitor::visit_str: the key classifier.              *)
(***************************************************************************)
\* Variant of the classifier: every key it does not know is skipped.
FieldInstanceFieldsVisit_SkipOthers(v) ==
    CASE v = "defUid" -> Ok("DefUid")
      [] v = "__identifier" -> Ok("Identifier")
      [] v = "__tile" -> Ok("Tile")
      [] v = "__type" -> Ok("Type")
      [] v = "__value" -> Ok("Value")
      [] OTHER -> Ok("Skip")

FieldInstanceFieldsVisit(v) ==
    CASE v = "defUid" -> Ok("DefUid")
      [] v = "__identifier" -> Ok("Identifier")
      [] v = "__tile" -> Ok("Tile")
      [] v = "__type" -> Ok("Type")
      [] v = "__value" -> Ok("Value")
      [] v = "realEditorValues" -> Ok("Skip")
      [] OTHER -> Fail(Err("UnknownField", v, <<>>, NoFV))

(***************************************************************************)
(* The statically typed members: def_uid: i32, identifier: String,         *)
(* tile: Nullable<TilesetRect>.                                            *)
(***************************************************************************)
DecodeI32(j) ==
    IF j.k = "int" THEN Ok(j.n)
    ELSE Fail(Err("InvalidType", "i32", <<>>, NoFV))

DecodeString(j) ==
    IF j.k = "str" THEN Ok(j.s)
    ELSE Fail(Err("InvalidType", "a string", <<>>, NoFV))

DecodeTilesetRect(j) ==
    IF j.k = "obj" /\ j.s = <<"rect">> THEN Ok(j)
    ELSE Fail(Err("InvalidType", "TilesetRect", <<>>, NoFV))

DecodeNullableTile(j) ==
    IF j.k = "null" THEN Ok(NullableNull(JNull))
    ELSE LET r == DecodeTilesetRect(j)
         IN  IF r.ok THEN Ok(NullableData(r.v)) ELSE r

(***************************************************************************)
(* #[derive(Deserialize)] #[serde(untagged)] enum FieldValue: the variants *)
(* are tried in declaration order against the buffered value and the first *)
(* that deserializes wins.  A derived struct (LdtkEnum, GridPoint,         *)
(* EntityRef) deserializes from an object with its members or from an      *)
(* array holding exactly its members in order.                             *)
(***************************************************************************)
AllOfKind(items, k) == \A i \in 1..Len(items) : items[i].k = k

IsLdtkEnum(j) ==
    \/ j.k = "obj" /\ j.s = <<"enum">>
    \/ j.k = "arr" /\ Len(j.items) = 2 /\ AllOfKind(j.items, "str")

IsGridPoint(j) ==
    \/ j.k = "obj" /\ j.s = <<"point">>
    \/ j.k = "arr" /\ Len(j.items) = 2 /\ AllOfKind(j.items, "int")

IsEntityRef(j) ==
    \/ j.k = "obj" /\ j.s = <<"ref">>
    \/ j.k = "arr" /\ Len(j.items) = 4 /\ AllOfKind(j.items, "str")

NoVariant == Fail(Err("NoVariant", "FieldValue", <<>>, NoFV))

RECURSIVE DecodeFieldValue(_)
DecodeFieldValue(j) ==
    IF j.k = "int" THEN Ok(FV("Integer", j))
    ELSE IF j.k \in {"big", "real"} THEN Ok(FV("Float", j))
    ELSE IF j.k = "bool" THEN Ok(FV("Bool", j))
    ELSE IF j.k = "str" THEN Ok(FV("String", j))
    ELSE IF IsLdtkEnum(j) THEN Ok(FV("LocalEnum", j))
    ELSE IF IsGridPoint(j) THEN Ok(FV("Point", j))
    ELSE IF IsEntityRef(j) THEN Ok(FV("EntityRef", j))
    ELSE IF j.k = "arr"
    THEN LET rs == [i \in 1..Len(j.items) |-> DecodeFieldValue(j.items[i])]
         IN  IF \A i \in 1..Len(rs) : rs[i].ok
             THEN Ok(FVArray(j, [i \in 1..Len(rs) |-> rs[i].v]))
             ELSE NoVariant
    ELSE NoVariant

\* Nullable<FieldValue>: null is Nullable::Null, anything else is the data.
DecodeNullableFieldValue(j) ==
    IF j.k = "null" THEN Ok(NullableNull(NoFV))
    ELSE LET r == DecodeFieldValue(j)
         IN  IF r.ok THEN Ok(NullableData(r.v)) ELSE r

(***************************************************************************)
(* LdtkColor from "#rrggbb".                                               *)
(***************************************************************************)
HexDigits == <<"0", "1", "2", "3", "4", "5", "6", "7", "8", "9",
               "a", "b", "c", "d", "e", "f", "A", "B", "C", "D", "E", "F">>

IsHex(c) == \E i \in 1..Len(HexDigits) : HexDigits[i] = c

HexVal(c) ==
    LET i == CHOOSE x \in 1..Len(HexDigits) : HexDigits[x] = c
    IN  IF i <= 16 THEN i - 1 ELSE i - 7

ParseColor(s) ==
    IF Len(s) = 7 /\ s[1] = "#" /\ \A i \in 2..7 : IsHex(s[i])
    THEN Ok(JRgb((HexVal(s[2]) * 16) + HexVal(s[3]),
                 (HexVal(s[4]) * 16) + HexVal(s[5]),
                 (HexVal(s[6]) * 16) + HexVal(s[7])))
    ELSE Fail(Err("MalformedColor", "-", s, NoFV))

\* transfer_str!(String, $dst, $name, value)
TransferStr(dst, name, v) ==
    IF v.present
    THEN IF v.data.tag = "String"
         THEN Ok(NullableData(FV(dst, v.data.j)))
         ELSE Fail(Err("TypeMismatch", name, <<>>, v.data))
    ELSE Ok(v)

(***************************************************************************)
(* FieldInstance and the locals of visit_map.                              *)
(***************************************************************************)
NoFI == [def_uid |-> 0, identifier |-> <<>>, tile |-> NullableNull(JNull),
         value |-> NullableNull(NoFV)]

Pending == [st |-> "none", fi |-> NoFI, err |-> NoErr]

Returned(fi) == [st |-> "ok", fi |-> fi, err |-> NoErr]

Failed(e) == [st |-> "err", fi |-> NoFI, err |-> e]

\* The call does not return: the thread unwinds with this payload.
Panicked(e) == [st |-> "panic", fi |-> NoFI, err |-> e]

Duplicate(name) == Failed(Err("DuplicateField", name, <<>>, NoFV))

Missing(name) == Failed(Err("MissingField", name, <<>>, NoFV))

InitLocals ==
    [def_uid |-> None(0), identifier |-> None(<<>>),
     tile |-> None(NullableNull(JNull)), ty |-> None("-"),
     value |-> None(NullableNull(NoFV)), result |-> Pending]

(***************************************************************************)
(* The match arms of the loop: l is the locals, j the value next_value     *)
(* would read.                                                             *)
(***************************************************************************)
VisitDefUid(l, j) ==
    IF l.def_uid.some THEN [l EXCEPT !.result = Duplicate("defUid")]
    ELSE LET r == DecodeI32(j)
         IN  IF r.ok THEN [l EXCEPT !.def_uid = Some(r.v)]
             ELSE [l EXCEPT !.result = Failed(r.err)]

\* Variant of the __identifier arm: a later occurrence replaces the earlier.
VisitIdentifier_LastWins(l, j) ==
    LET r == DecodeString(j)
    IN  IF r.ok THEN [l EXCEPT !.identifier = Some(r.v)]
        ELSE [l EXCEPT !.result = Failed(r.err)]

VisitIdentifier(l, j) ==
    IF l.identifier.some THEN [l EXCEPT !.result = Duplicate("__identifier")]
    ELSE LET r == DecodeString(j)
         IN  IF r.ok THEN [l EXCEPT !.identifier = Some(r.v)]
             ELSE [l EXCEPT !.result = Failed(r.err)]

\* Variant of the __tile arm: a null first occurrence counts as not seen.
VisitTile_NullIsUnset(l, j) ==
    IF l.tile.some /\ l.tile.v.present THEN [l EXCEPT !.result = Duplicate("__tile")]
    ELSE LET r == DecodeNullableTile(j)
         IN  IF r.ok THEN [l EXCEPT !.tile = Some(r.v)]
             ELSE [l EXCEPT !.result = Failed(r.err)]

VisitTile(l, j) ==
    IF l.tile.some THEN [l EXCEPT !.result = Duplicate("__tile")]
    ELSE LET r == DecodeNullableTile(j)
         IN  IF r.ok THEN [l EXCEPT !.tile = Some(r.v)]
             ELSE [l EXCEPT !.result = Failed(r.err)]

VisitType(l, j) ==
    IF l.ty.some THEN [l EXCEPT !.result = Duplicate("__type")]
    ELSE LET r == DeserializeFieldType(j)
         IN  IF r.ok THEN [l EXCEPT !.ty = Some(r.v)]
             ELSE [l EXCEPT !.result = Failed(r.err)]

\* Variant of the __value arm: a single pass that needs ty when it reads
\* the value.
VisitValue_NeedsType(l, j) ==
    IF l.value.some THEN [l EXCEPT !.result = Duplicate("__value")]
    ELSE IF ~l.ty.some THEN [l EXCEPT !.result = Missing("__type")]
    ELSE LET r == DecodeNullableFieldValue(j)
         IN  IF r.ok THEN [l EXCEPT !.value = Some(r.v)]
             ELSE [l EXCEPT !.result = Failed(r.err)]

\* value is an Option<Nullable<FieldValue>>: next_value() decodes into the
\* untagged union here, whatever ty holds.
VisitValue(l, j) ==
    IF l.value.some THEN [l EXCEPT !.result = Duplicate("__value")]
    ELSE LET r == DecodeNullableFieldValue(j)
         IN  IF r.ok THEN [l EXCEPT !.value = Some(r.v)]
             ELSE [l EXCEPT !.result = Failed(r.err)]

\* Variant of the Skip arm: the legacy value read as the array it used to be.
VisitSkip_ExpectsArray(l, j) ==
    IF j.k = "arr" THEN l
    ELSE [l EXCEPT !.result = Failed(Err("InvalidType", "realEditorValues", <<>>, NoFV))]

\* next_value::<IgnoredAny>() accepts every value.
VisitSkip(l, j) == l

\* next_key()? when the classifier rejects the key.
VisitUnknown(l, key) == [l EXCEPT !.result = Failed(FieldInstanceFieldsVisit(key).err)]

(***************************************************************************)
(* After the loop: the missing-field checks, then the match on ty.         *)
(***************************************************************************)
ColorOf(v) ==
    IF v.present
    THEN IF v.data.tag = "String"
         THEN LET c == ParseColor(v.data.j.s)
              IN  IF c.ok THEN Ok(NullableData(FV("Color", c.v))) ELSE c
         ELSE Fail(Err("TypeMismatch", "color", <<>>, v.data))
    ELSE Ok(NullableNull(NoFV))

MatchTy(kind, v) ==
    CASE kind = "Multilines" -> TransferStr("Multilines", "multiline string", v)
      [] kind = "FilePath" -> TransferStr("FilePath", "file path", v)
      [] kind = "Color" -> ColorOf(v)
      [] OTHER -> Ok(v)

\* Variant of the tail: __value checked before __type.
EndOfMap_ValueBeforeType(l) ==
    IF ~l.def_uid.some THEN [l EXCEPT !.result = Missing("defUid")]
    ELSE IF ~l.identifier.some THEN [l EXCEPT !.result = Missing("__identifier")]
    ELSE IF ~l.tile.some THEN [l EXCEPT !.result = Missing("__tile")]
    ELSE IF ~l.value.some THEN [l EXCEPT !.result = Missing("__value")]
    ELSE IF ~l.ty.some THEN [l EXCEPT !.result = Missing("__type")]
    ELSE LET r == MatchTy(l.ty.v, l.value.v)
         IN  IF r.ok
             THEN [l EXCEPT !.result =
                      Returned([def_uid |-> l.def_uid.v,
                                identifier |-> l.identifier.v,
                                tile |-> l.tile.v, value |-> r.v])]
             ELSE IF r.err.kind = "MalformedColor"
                  THEN [l EXCEPT !.result = Panicked(r.err)]
                  ELSE [l EXCEPT !.result = Failed(r.err)]

\* LdtkColor::from(s) is a From conversion: it returns a color or does not
\* return, so a string ParseColor rejects cannot come back as an Err.
EndOfMap(l) ==
    IF ~l.def_uid.some THEN [l EXCEPT !.result = Missing("defUid")]
    ELSE IF ~l.identifier.some THEN [l EXCEPT !.result = Missing("__identifier")]
    ELSE IF ~l.tile.some THEN [l EXCEPT !.result = Missing("__tile")]
    ELSE IF ~l.ty.some THEN [l EXCEPT !.result = Missing("__type")]
    ELSE IF ~l.value.some THEN [l EXCEPT !.result = Missing("__value")]
    ELSE LET r == MatchTy(l.ty.v, l.value.v)
         IN  IF r.ok
             THEN [l EXCEPT !.result =
                      Returned([def_uid |-> l.def_uid.v,
                                identifier |-> l.identifier.v,
                                tile |-> l.tile.v, value |-> r.v])]
             ELSE IF r.err.kind = "MalformedColor"
                  THEN [l EXCEPT !.result = Panicked(r.err)]
                  ELSE [l EXCEPT !.result = Failed(r.err)]

(***************************************************************************)
(* visit_map as a function of the whole object: the loop, then the tail.   *)
(***************************************************************************)
VisitEntry(l, e) ==
    LET key == FieldInstanceFieldsVisit(e.key)
    IN  IF ~key.ok THEN VisitUnknown(l, e.key)
        ELSE IF key.v = "DefUid" THEN VisitDefUid(l, e.val)
        ELSE IF key.v = "Identifier" THEN VisitIdentifier(l, e.val)
        ELSE IF key.v = "Tile" THEN VisitTile(l, e.val)
        ELSE IF key.v = "Type" THEN VisitType(l, e.val)
        ELSE IF key.v = "Value" THEN VisitValue(l, e.val)
        ELSE VisitSkip(l, e.val)

RECURSIVE VisitFrom(_, _, _)
VisitFrom(l, o, i) ==
    IF l.result.st # "none" THEN l
    ELSE IF i > Len(o) THEN EndOfMap(l)
    ELSE VisitFrom(VisitEntry(l, o[i]), o, i + 1)

VisitMap(o) == VisitFrom(InitLocals, o, 1).result

(***************************************************************************)
(* The objects decoded.                                                    *)
(***************************************************************************)
Entry(key, val) == [key |-> key, val |-> val]

Txt_a == <<"a">>

Txt_b == <<"b">>

Txt_hello == <<"h", "e", "l", "l", "o">>

Txt_red == <<"#", "f", "f", "0", "0", "0", "0">>

Txt_mixed == <<"#", "1", "a", "B", "c", "0", "9">>

Txt_zz == <<"#", "z", "z", "z", "z", "z", "z">>

Txt_short == <<"#", "f", "f", "0">>

Txt_nohash == <<"f", "f", "0", "0", "0", "0", "0">>

TypeTokens ==
    {T_Int, T_Float, T_Bool, T_String, T_Multilines, T_FilePath, T_Color,
     T_Point, T_EntityRef, T_LocalEnum, T_ExternEnum, T_Array,
     T_LocalEnum \o <<".", "A">>, T_LocalEnum \o <<".", "B">>,
     T_LocalEnum \o T_Int, T_ExternEnum \o <<".", "X">>,
     T_Array \o <<"<">> \o T_Int \o <<">">>, T_Array \o T_Int,
     T_Int \o <<"e", "g", "e", "r">>, T_Int \o T_Array,
     <<"i", "n", "t">>, <<"L", "o", "c", "a", "l">>, <<"A", "r", "r">>,
     <<"B", "o", "g", "u", "s">>, <<" ">> \o T_Int, <<>>}

Values ==
    {JNull, JInt(3), JInt(0 - 1), JBig(<<"4", "2", "9", "4", "9", "6", "7", "2", "9", "6">>),
     JReal(<<"1", ".", "5">>), JBool(TRUE), JBool(FALSE),
     JStr(Txt_hello), JStr(<<>>), JStr(Txt_red), JStr(Txt_mixed), JStr(Txt_zz),
     JStr(Txt_short), JStr(Txt_nohash),
     JObj("enum"), JObj("point"), JObj("ref"), JObj("rect"), JObj("other"),
     JArr(<<>>), JArr(<<JInt(1)>>), JArr(<<JInt(1), JInt(2)>>),
     JArr(<<JStr(Txt_a), JStr(Txt_b)>>), JArr(<<JInt(1), JStr(Txt_a)>>),
     JArr(<<JObj("other")>>)}

\* How many entries an object may hold beyond the (at most once each)
\* recognized keys of its base.
MaxExtra == 1

BaseEntries ==
    <<Entry("defUid", JInt(1)), Entry("__identifier", JStr(Txt_a)),
      Entry("__tile", JNull), Entry("__type", JStr(T_Int)),
      Entry("__value", JNull)>>

ExtraEntries ==
    {Entry("defUid", JInt(1)), Entry("__identifier", JStr(Txt_b)),
     Entry("__tile", JObj("rect")), Entry("__type", JStr(T_Int)),
     Entry("__value", JInt(3)),
     Entry("realEditorValues", JArr(<<>>)), Entry("realEditorValues", JObj("other")),
     Entry("extra", JNull), Entry("defuid", JInt(1)),
     Entry("defUid", JStr(Txt_a)), Entry("__value", JObj("other"))}

Injective(f) == \A i, k \in DOMAIN f : f[i] = f[k] => i = k

\* Every subset of the five recognized keys, in FIELDS order and reversed.
Increasing(f) == \A i, k \in DOMAIN f : i < k => f[i] < f[k]

Decreasing(f) == \A i, k \in DOMAIN f : i < k => f[i] > f[k]

BaseObjects ==
    UNION {{[i \in 1..n |-> BaseEntries[f[i]]] :
               f \in {g \in [1..n -> 1..5] : Increasing(g) \/ Decreasing(g)}} :
           n \in 0..5}

InsertAt(o, i, e) ==
    LET at == IF i > Len(o) THEN Len(o) ELSE i
    IN  SubSeq(o, 1, at) \o <<e>> \o SubSeq(o, at + 1, Len(o))

\* Up to MaxExtra insertions, each an extra entry and the place it goes to.
Insertions ==
    UNION {[1..n -> (0..(Len(BaseEntries) + MaxExtra - 1)) \X ExtraEntries] :
           n \in 0..MaxExtra}

RECURSIVE ApplyInsertions(_, _, _)
ApplyInsertions(o, ins, i) ==
    IF i > Len(ins) THEN o
    ELSE ApplyInsertions(InsertAt(o, ins[i][1], ins[i][2]), ins, i + 1)

\* The five recognized keys in a given order, carrying the given data.
Object(f, du, id, tl, tp, va) ==
    LET data == <<Entry("defUid", du), Entry("__identifier", id),
                  Entry("__tile", tl), Entry("__type", tp), Entry("__value", va)>>
    IN  [i \in 1..5 |-> data[f[i]]]

Permutations5 == {f \in [1..5 -> 1..5] : Injective(f)}

Canonical == [i \in 1..5 |-> i]

ValueFirst == <<5, 4, 2, 1, 3>>

PermObjects ==
    {Object(f, du, JStr(Txt_a), tl, tp, va) :
        f \in Permutations5, du \in {JInt(1), JStr(Txt_a)},
        tl \in {JNull, JObj("rect")},
        tp \in {JStr(T_Int), JStr(T_Float), JStr(T_Color), JStr(T_Multilines),
                JStr(<<"B", "o", "g", "u", "s">>), JInt(1)},
        va \in {JNull, JInt(3), JStr(Txt_red), JStr(Txt_zz), JObj("other")}}

ValueObjects ==
    {Object(f, JInt(1), JStr(Txt_a), JNull, JStr(tp), va) :
        f \in {Canonical, ValueFirst}, tp \in TypeTokens, va \in Values}

StaticObjects ==
    {Object(Canonical, JInt(1), id, tl, JStr(T_Int), JInt(3)) :
        id \in {JStr(Txt_a), JStr(<<>>), JInt(1), JNull},
        tl \in {JNull, JObj("rect"), JObj("other"), JInt(1)}}

FixedObjects == PermObjects \cup ValueObjects \cup StaticObjects

Seeds == BaseObjects \cup FixedObjects

(***************************************************************************)
(* The state machine: one call of visit_map on obj.  pos entries have been *)
(* taken from the map; result is "none" while the call runs.               *)
(***************************************************************************)
Locals ==
    [def_uid |-> def_uid, identifier |-> identifier, tile |-> tile,
     ty |-> ty, value |-> value, result |-> result]

Store(l) ==
    /\ def_uid' = l.def_uid
    /\ identifier' = l.identifier
    /\ tile' = l.tile
    /\ ty' = l.ty
    /\ value' = l.value
    /\ result' = l.result

\* The values the variables of a machine hold while another one runs.
FiIdle ==
    /\ obj = <<>>
    /\ pos = 0
    /\ def_uid = InitLocals.def_uid
    /\ identifier = InitLocals.identifier
    /\ tile = InitLocals.tile
    /\ ty = InitLocals.ty
    /\ value = InitLocals.value
    /\ result = InitLocals.result

RtIdle == original = NoFV /\ wire = None(JNull) /\ back = None(Fail(NoErr))

DocIdle ==
    /\ doc = <<>>
    /\ ent = 0
    /\ fld = 0
    /\ decoded = <<>>
    /\ docResult = [st |-> "none", model |-> <<>>, err |-> NoErr]

BgIdle ==
    /\ textures = <<>>
    /\ materials = <<>>
    /\ created = <<>>
    /\ calls = 0
    /\ lastCall = [material |-> 0, returned |-> FALSE]

Init ==
    /\ \E o \in Seeds :
          \E ins \in (IF o \in BaseObjects THEN Insertions ELSE {<<>>}) :
             obj = ApplyInsertions(o, ins, 1)
    /\ pos = 0
    /\ def_uid = InitLocals.def_uid
    /\ identifier = InitLocals.identifier
    /\ tile = InitLocals.tile
    /\ ty = InitLocals.ty
    /\ value = InitLocals.value
    /\ result = InitLocals.result
    /\ RtIdle
    /\ DocIdle
    /\ BgIdle

Running == result.st = "none"

\* map.next_key() yields Some(key): the key's class, "Unknown" when the
\* classifier rejects it.
NextKeyIs(class) ==
    /\ Running
    /\ pos < Len(obj)
    /\ LET key == FieldInstanceFieldsVisit(obj[pos + 1].key)
       IN  IF key.ok THEN key.v = class ELSE class = "Unknown"

Take == pos' = pos + 1 /\ UNCHANGED <<obj, rtVars, docVars, bgVars>>

ArmDefUid == NextKeyIs("DefUid") /\ Store(VisitDefUid(Locals, obj[pos + 1].val)) /\ Take

ArmIdentifier ==
    NextKeyIs("Identifier") /\ Store(VisitIdentifier(Locals, obj[pos + 1].val)) /\ Take

ArmTile == NextKeyIs("Tile") /\ Store(VisitTile(Locals, obj[pos + 1].val)) /\ Take

ArmType == NextKeyIs("Type") /\ Store(VisitType(Locals, obj[pos + 1].val)) /\ Take

ArmValue == NextKeyIs("Value") /\ Store(VisitValue(Locals, obj[pos + 1].val)) /\ Take

ArmSkip == NextKeyIs("Skip") /\ Store(VisitSkip(Locals, obj[pos + 1].val)) /\ Take

KeyError == NextKeyIs("Unknown") /\ Store(VisitUnknown(Locals, obj[pos + 1].key)) /\ Take

\* map.next_key() yields None.
Finish ==
    /\ Running
    /\ pos = Len(obj)
    /\ Store(EndOfMap(Locals))
    /\ UNCHANGED <<obj, pos, rtVars, docVars, bgVars>>

Next ==
    \/ ArmDefUid
    \/ ArmIdentifier
    \/ ArmTile
    \/ ArmType
    \/ ArmValue
    \/ ArmSkip
    \/ KeyError
    \/ Finish

Spec == Init /\ [][Next]_vars

Done == result.st # "none"

(***************************************************************************)
(* Vocabulary of the properties: what an object holds, read off the input. *)
(***************************************************************************)
\* const FIELDS
FIELDS == <<"defUid", "__identifier", "__tile", "__type", "__value">>

Recognized == {FIELDS[i] : i \in 1..Len(FIELDS)}

LegacyKey == "realEditorValues"

Count(o, key) == Cardinality({i \in 1..Len(o) : o[i].key = key})

HasAllFiveOnce(o) == \A key \in Recognized : Count(o, key) = 1

IsFiveKeyObject(o) == Len(o) = 5 /\ HasAllFiveOnce(o)

OnlyRecognized(o) == SelectSeq(o, LAMBDA e : e.key \in Recognized)

WithoutLegacy(o) == SelectSeq(o, LAMBDA e : e.key # LegacyKey)

HasForeignKey(o) == \E i \in 1..Len(o) : o[i].key \notin Recognized \cup {LegacyKey}

ValueOf(o, key) == o[CHOOSE i \in 1..Len(o) : o[i].key = key].val

\* The entries of a five-key object in FIELDS order.
InFieldsOrder(o) == [i \in 1..5 |-> Entry(FIELDS[i], ValueOf(o, FIELDS[i]))]

\* What a caller can tell apart: the FieldInstance, or that there is none.
Outcome(r) == IF r.st = "ok" THEN r ELSE Pending

VariantOf(kind) == IF kind = "Int" THEN "Integer" ELSE kind

C2_VariantMatchesTag ==
    (result.st = "ok" /\ result.fi.value.present)
        => result.fi.value.data.tag = VariantOf(ty.v)

(***************************************************************************)
(* C3.  A five-key object decodes to the same outcome in every key order:  *)
(* each order gives what the FIELDS order gives (every order of every data *)
(* set of PermObjects is decoded).                                         *)
(***************************************************************************)
C3_OrderIndependent ==
    (Done /\ IsFiveKeyObject(obj))
        => Outcome(result) = Outcome(VisitMap(InFieldsOrder(obj)))

C3_Witness ==
    /\ Done
    /\ IsFiveKeyObject(obj)
    /\ obj[1].key = "__value"
    /\ obj[5].key = "__type"
    /\ result.st = "ok"
    /\ result.fi.value.present

(***************************************************************************)
(* C4.  The value is held untyped until the type tag is known: whenever a  *)
(* FieldValue variant has been chosen for it, __type has been read.        *)
(***************************************************************************)
C4_ValueDeferred == (value.some /\ value.v.present) => ty.some

(***************************************************************************)
(* C5.  A recognized key occurring a second time is rejected where it is   *)
(* read, with the duplicate-field error naming it, whatever the values of  *)
(* the two occurrences; and no object repeating a recognized key decodes.  *)
(***************************************************************************)
RepeatsAt(o, i) ==
    /\ o[i].key \in Recognized
    /\ \E k \in 1..(i - 1) : o[k].key = o[i].key

C5_DuplicateRejected ==
    /\ (pos >= 1 /\ RepeatsAt(obj, pos)) => result = Duplicate(obj[pos].key)
    /\ (Done /\ \E i \in 1..Len(obj) : RepeatsAt(obj, i)) => result.st = "err"

\* __tile: null, then __tile again with another value.
C5_Witness ==
    /\ pos >= 2
    /\ obj[pos].key = "__tile"
    /\ obj[pos].val # JNull
    /\ \E k \in 1..(pos - 1) : obj[k].key = "__tile" /\ obj[k].val = JNull
    /\ result = Duplicate("__tile")

(***************************************************************************)
(* C6.  When the keys are exhausted and the loop has not failed, the call  *)
(* fails with the missing-field error naming the first key of FIELDS that  *)
(* the object does not hold, if there is one, and with no missing-field    *)
(* error otherwise.                                                        *)
(***************************************************************************)
Absent(o) == {i \in 1..Len(FIELDS) : Count(o, FIELDS[i]) = 0}

FirstAbsent(o) == FIELDS[CHOOSE i \in Absent(o) : \A k \in Absent(o) : i <= k]

C6_MissingNamesFirstAbsent ==
    [][(Running /\ pos = Len(obj))
          => IF Absent(obj) # {}
             THEN result' = Missing(FirstAbsent(obj))
             ELSE result'.err.kind # "MissingField"]_vars

\* __type and __value both left out, the first three present.
C6_Witness ==
    /\ Absent(obj) = {4, 5}
    /\ result = Missing("__type")

(***************************************************************************)
(* C7.  The normalizer: a tag that begins with LocalEnum, ExternEnum or    *)
(* Array has that kind whatever follows; any other tag has the kind it is  *)
(* the exact name of, among the nine plain names; every other tag is       *)
(* rejected with the unknown-type error carrying the tag.                  *)
(***************************************************************************)
Begins(tok, p) == \E n \in 0..Len(tok) : tok = p \o SubSeq(tok, n + 1, Len(tok))

PlainNames ==
    {<<T_Int, "Int">>, <<T_Float, "Float">>, <<T_Bool, "Bool">>,
     <<T_String, "String">>, <<T_Multilines, "Multilines">>,
     <<T_FilePath, "FilePath">>, <<T_Color, "Color">>, <<T_Point, "Point">>,
     <<T_EntityRef, "EntityRef">>}

KindsOf(tok) ==
    IF Begins(tok, T_LocalEnum) THEN {"LocalEnum"}
    ELSE IF Begins(tok, T_ExternEnum) THEN {"ExternEnum"}
    ELSE IF Begins(tok, T_Array) THEN {"Array"}
    ELSE {pn[2] : pn \in {x \in PlainNames : x[1] = tok}}

C7_TypeTagNormalized ==
    (/\ pos >= 1
     /\ obj[pos].key = "__type"
     /\ ~RepeatsAt(obj, pos)
     /\ obj[pos].val.k = "str")
        => LET tok == obj[pos].val.s
           IN  IF KindsOf(tok) # {}
               THEN ty.some /\ KindsOf(tok) = {ty.v}
               ELSE result = Failed(Err("UnknownFieldType", "-", tok, NoFV))

C7_Witness ==
    /\ pos >= 1
    /\ obj[pos].key = "__type"
    /\ obj[pos].val = JStr(T_LocalEnum \o <<".", "B">>)
    /\ ty = Some("LocalEnum")

(***************************************************************************)
(* An object holding the five keys once, the three statically typed ones   *)
(* with values of their types, and the given type tag.                     *)
(***************************************************************************)
TaggedObject(o, tok) ==
    /\ IsFiveKeyObject(o)
    /\ ValueOf(o, "defUid").k = "int"
    /\ ValueOf(o, "__identifier").k = "str"
    /\ ValueOf(o, "__tile") \in {JNull, JObj("rect")}
    /\ ValueOf(o, "__type") = JStr(tok)

(***************************************************************************)
(* C8.  Under tag Color a string that is not "#rrggbb" makes the decode    *)
(* fail with the malformed-color error carrying the string; a well-formed  *)
(* string decodes to the color of its channels.                            *)
(***************************************************************************)
C8_MalformedColorRejected ==
    (Done /\ TaggedObject(obj, T_Color) /\ ValueOf(obj, "__value").k = "str")
        => LET s == ValueOf(obj, "__value").s
           IN  IF ParseColor(s).ok
               THEN /\ result.st = "ok"
                    /\ result.fi.value = NullableData(FV("Color", ParseColor(s).v))
               ELSE result = Failed(Err("MalformedColor", "-", s, NoFV))

(***************************************************************************)
(* C9.  Under tag Color a null value decodes to a FieldInstance without a  *)
(* value; a value that is present and not a string makes the decode fail   *)
(* with the mismatch error that carries the value.                         *)
(***************************************************************************)
C9_ColorAbsentOrMismatch ==
    (Done /\ TaggedObject(obj, T_Color))
        => LET v == ValueOf(obj, "__value")
           IN  /\ v.k = "null" => (result.st = "ok" /\ ~result.fi.value.present)
               /\ v.k \notin {"null", "str"}
                     => /\ result.st = "err"
                        /\ result.err.kind = "TypeMismatch"
                        /\ result.err.name = "color"
                        /\ result.err.fv.j = v

(***************************************************************************)
(* C10.  Under tag Multilines (FilePath) a string decodes to the           *)
(* Multilines (FilePath) variant with the same text, under tag String to   *)
(* the String variant; a present value that is not a string makes the      *)
(* decode under Multilines or FilePath fail with the dedicated error.      *)
(***************************************************************************)
C10_StringSubtypes ==
    \A kind \in {<<T_Multilines, "Multilines", "multiline string">>,
                 <<T_FilePath, "FilePath", "file path">>,
                 <<T_String, "String", "-">>} :
        (Done /\ TaggedObject(obj, kind[1]))
            => LET v == ValueOf(obj, "__value")
               IN  /\ v.k = "str"
                      => (result.st = "ok"
                          /\ result.fi.value = NullableData(FV(kind[2], v)))
                   /\ (v.k \notin {"null", "str"} /\ kind[2] # "String")
                      => /\ result.st = "err"
                         /\ result.err.kind = "TypeMismatch"
                         /\ result.err.name = kind[3]

(***************************************************************************)
(* C12.  Reading the legacy key realEditorValues changes nothing but the   *)
(* position, wherever the key stands and whatever its value is; so an      *)
(* object holding the five required keys once plus legacy keys decodes to  *)
(* what the object without the legacy keys decodes to.                     *)
(***************************************************************************)
HasLegacyKey(o) == Count(o, LegacyKey) >= 1

C12_LegacyKeyDiscarded ==
    /\ [][(Running /\ pos < Len(obj) /\ obj[pos + 1].key = LegacyKey)
             => (Locals' = Locals /\ pos' = pos + 1)]_vars
    /\ []((Done /\ HasAllFiveOnce(obj) /\ HasLegacyKey(obj) /\ ~HasForeignKey(obj))
             => result = VisitMap(WithoutLegacy(obj)))

\* The legacy key first, carrying an object, and the FieldInstance returned.
C12_Witness ==
    /\ Len(obj) = 6
    /\ obj[1] = Entry(LegacyKey, JObj("other"))
    /\ HasAllFiveOnce(obj)
    /\ result.st = "ok"

(***************************************************************************)
(* Where the loop stops.  The value of entry i fails to decode when the    *)
(* decoder of its key's field rejects it; the legacy value never does.     *)
(***************************************************************************)
ValueFails(o, i) ==
    LET key == o[i].key
        val == o[i].val
    IN  IF key = "defUid" THEN ~DecodeI32(val).ok
        ELSE IF key = "__identifier" THEN ~DecodeString(val).ok
        ELSE IF key = "__tile" THEN ~DecodeNullableTile(val).ok
        ELSE IF key = "__type" THEN ~DeserializeFieldType(val).ok
        ELSE IF key = "__value" THEN ~DecodeNullableFieldValue(val).ok
        ELSE FALSE

ForeignAt(o, i) == o[i].key \notin Recognized \cup {LegacyKey}

\* The call returns at the first entry of bad and reads nothing after it;
\* with no such entry it consumes every key and only then may report a
\* missing field.
ReturnsAtFirst(bad) ==
    /\ \A i \in bad : pos <= i
    /\ Done => IF bad # {}
               THEN /\ pos \in bad
                    /\ result.st = "err"
                    /\ result.err.kind # "MissingField"
                    /\ RepeatsAt(obj, pos) => result = Duplicate(obj[pos].key)
               ELSE /\ pos = Len(obj)
                    /\ result.err.kind = "MissingField" <=> Absent(obj) # {}

FormatColor(n) ==
    LET hex(c) == <<HexDigits[(c \div 16) + 1], HexDigits[(c % 16) + 1]>>
    IN  <<"#">> \o hex(n \div 65536) \o hex((n \div 256) % 256) \o hex(n % 256)

RECURSIVE Serialize(_)
Serialize(v) ==
    IF v.tag = "Array"
    THEN JArr([i \in 1..Len(v.elems) |-> Serialize(v.elems[i])])
    ELSE IF v.tag = "Color" THEN JStr(FormatColor(v.j.n))
    ELSE v.j

\* FieldValue::Array(elems)
MkArray(elems) == FVArray(JArr([i \in 1..Len(elems) |-> Serialize(elems[i])]), elems)

(***************************************************************************)
(* The values written out and read back: one of every variant, and the     *)
(* arrays of up to MaxArrayLen of them.                                    *)
(***************************************************************************)
MaxArrayLen == 2

Elements ==
    {FV("Integer", JInt(1)), FV("Integer", JInt(2)),
     FV("Float", JReal(<<"1", ".", "5">>)), FV("Float", JReal(<<"3", ".", "0">>)),
     FV("Bool", JBool(TRUE)),
     FV("String", JStr(Txt_a)), FV("String", JStr(Txt_red)),
     FV("LocalEnum", JObj("enum")), FV("ExternEnum", JObj("enum")),
     FV("Color", JRgb(255, 0, 0)), FV("Color", JRgb(26, 188, 9)),
     FV("Point", JObj("point")), FV("EntityRef", JObj("ref")),
     MkArray(<<>>)}

StringSubtypes == {FV("Multilines", JStr(Txt_hello)), FV("FilePath", JStr(Txt_a))}

RtInit ==
    /\ \/ original \in Elements \cup StringSubtypes
       \/ \E n \in 1..MaxArrayLen : \E elems \in [1..n -> Elements] :
             original = MkArray(elems)
    /\ wire = None(JNull)
    /\ back = None(Fail(NoErr))
    /\ FiIdle
    /\ DocIdle
    /\ BgIdle

\* serde_json::to_value(&original)
Encode ==
    /\ ~wire.some
    /\ wire' = Some(Serialize(original))
    /\ UNCHANGED <<original, back, fiVars, docVars, bgVars>>

\* serde_json::from_value::<FieldValue>(wire)
Decode ==
    /\ wire.some
    /\ ~back.some
    /\ back' = Some(DecodeFieldValue(wire.v))
    /\ UNCHANGED <<original, wire, fiVars, docVars, bgVars>>

RtNext ==
    \/ Encode
    \/ Decode

SpecRoundTrip == RtInit /\ [][RtNext]_vars

(***************************************************************************)
(* C11.  A FieldValue of a variant other than Multilines and FilePath,     *)
(* written out and read back, is the value it was: the same variant with   *)
(* the same payload.                                                       *)
(***************************************************************************)
C11_RoundTrip ==
    (back.some /\ original.tag \notin {"Multilines", "FilePath"})
        => (back.v.ok /\ back.v.v = original)

(***************************************************************************)
(* A document.  A Level owns a list of FieldInstance and a list of         *)
(* LayerInstance, a LayerInstance a list of EntityInstance, an             *)
(* EntityInstance a list of FieldInstance; all are derived decoders that   *)
(* read their members in document order.  The FieldInstance lists are      *)
(* numbered in that order: list 1 is the Level's own, list                 *)
(* 1 + (l - 1) * MaxEntities + e is that of entity e of layer l.           *)
(***************************************************************************)
MaxLayers == 2

MaxEntities == 2

MaxFieldInstances == 2

NumLists == 1 + (MaxLayers * MaxEntities)

GoodInt == Object(Canonical, JInt(1), JStr(Txt_a), JNull, JStr(T_Int), JInt(3))

GoodColor == Object(Canonical, JInt(1), JStr(Txt_b), JNull, JStr(T_Color), JStr(Txt_red))

FieldPool ==
    {GoodInt, GoodColor,
     GoodInt \o <<Entry("defUid", JInt(1))>>,
     SubSeq(GoodInt, 1, 4),
     Object(Canonical, JInt(1), JStr(Txt_a), JNull, JStr(<<"B", "o", "g", "u", "s">>), JInt(3)),
     Object(Canonical, JInt(1), JStr(Txt_a), JNull, JStr(T_Color), JStr(Txt_zz)),
     Object(Canonical, JInt(1), JStr(Txt_a), JNull, JStr(T_Color), JInt(3))}

NoModel == <<>>

Undecided == [st |-> "none", model |-> NoModel, err |-> NoErr]

\* Variant of the element step: an element that does not decode is left out.
VisitSeqElement_SkipFailed(vecs, s, r) ==
    IF r.st = "ok"
    THEN [vecs |-> [vecs EXCEPT ![s] = Append(@, r.fi)], res |-> Undecided]
    ELSE [vecs |-> vecs, res |-> Undecided]

\* One element of a Vec<FieldInstance>: pushed when it decodes; otherwise
\* the error leaves the list, the entity, the layer and the level through
\* their ?s, and the lists built so far are dropped.
VisitSeqElement(vecs, s, r) ==
    IF r.st = "ok"
    THEN [vecs |-> [vecs EXCEPT ![s] = Append(@, r.fi)], res |-> Undecided]
    ELSE [vecs |-> NoModel, res |-> [st |-> r.st, model |-> NoModel, err |-> r.err]]

Nondecreasing(f) == \A i, k \in DOMAIN f : i < k => f[i] <= f[k]

\* The objects placed in list s, in document order.
ListOf(places, objs, s) ==
    LET pairs == [i \in DOMAIN places |-> <<places[i], objs[i]>>]
        mine == SelectSeq(pairs, LAMBDA pr : pr[1] = s)
    IN  [i \in 1..Len(mine) |-> mine[i][2]]

DocInit ==
    /\ \E n \in 0..MaxFieldInstances :
          \E places \in [1..n -> 1..NumLists] :
             \E objs \in [1..n -> FieldPool] :
                /\ Nondecreasing(places)
                /\ doc = [s \in 1..NumLists |-> ListOf(places, objs, s)]
    /\ ent = 1
    /\ fld = 0
    /\ decoded = [s \in 1..NumLists |-> <<>>]
    /\ docResult = Undecided
    /\ FiIdle
    /\ RtIdle
    /\ BgIdle

Decoding == docResult.st = "none"

\* The next FieldInstance of the current list.
NextFieldInstance ==
    /\ Decoding
    /\ ent <= NumLists
    /\ fld < Len(doc[ent])
    /\ LET step == VisitSeqElement(decoded, ent, VisitMap(doc[ent][fld + 1]))
       IN  /\ decoded' = step.vecs
           /\ docResult' = step.res
    /\ fld' = fld + 1
    /\ UNCHANGED <<doc, ent, fiVars, rtVars, bgVars>>

\* The current list is exhausted: on to the next one.
EndOfList ==
    /\ Decoding
    /\ ent <= NumLists
    /\ fld = Len(doc[ent])
    /\ ent' = ent + 1
    /\ fld' = 0
    /\ UNCHANGED <<doc, decoded, docResult, fiVars, rtVars, bgVars>>

\* Every list read: the Level is returned.
EndOfLevel ==
    /\ Decoding
    /\ ent = NumLists + 1
    /\ docResult' = [st |-> "ok", model |-> decoded, err |-> NoErr]
    /\ UNCHANGED <<doc, ent, fld, decoded, fiVars, rtVars, bgVars>>

DocNext ==
    \/ NextFieldInstance
    \/ EndOfList
    \/ EndOfLevel

SpecDoc == DocInit /\ [][DocNext]_vars

(***************************************************************************)
(* C13.  All or nothing.  Once a FieldInstance that does not decode has    *)
(* been read, the document decode has ended without a model; a document    *)
(* that ends without a model carries the error of its first FieldInstance  *)
(* that does not decode, and nothing of what was decoded before it; a      *)
(* document is returned only if every FieldInstance in it decodes, and     *)
(* then holds the decode of each.                                          *)
(***************************************************************************)
Places == {pl \in (1..NumLists) \X (1..MaxFieldInstances + 1) : pl[2] <= Len(doc[pl[1]])}

FailsAt(pl) == VisitMap(doc[pl[1]][pl[2]]).st # "ok"

Before(a, b) == a[1] < b[1] \/ (a[1] = b[1] /\ a[2] < b[2])

HasBeenRead(pl) == pl[1] < ent \/ (pl[1] = ent /\ pl[2] <= fld)

FirstFailure == CHOOSE pl \in Places : FailsAt(pl) /\ \A q \in Places : FailsAt(q) => ~Before(q, pl)

C13_AllOrNothing ==
    /\ \A pl \in Places :
          (FailsAt(pl) /\ HasBeenRead(pl)) => docResult.st \in {"err", "panic"}
    /\ docResult.st \in {"err", "panic"}
          => /\ docResult.model = NoModel
             /\ decoded = NoModel
             /\ \E pl \in Places : FailsAt(pl)
             /\ docResult.err = VisitMap(doc[FirstFailure[1]][FirstFailure[2]]).err
    /\ docResult.st = "ok"
          => /\ \A pl \in Places : ~FailsAt(pl)
             /\ docResult.model =
                   [s \in 1..NumLists |->
                       [i \in 1..Len(doc[s]) |-> VisitMap(doc[s][i]).fi]]

\* The Level's own FieldInstance decoded, then one of an entity did not:
\* nothing is returned.
C13_Witness ==
    /\ Len(doc[1]) = 1
    /\ ~FailsAt(<<1, 1>>)
    /\ ent > 1
    /\ fld >= 1
    /\ docResult.st = "err"
    /\ docResult.err.kind = "DuplicateField"
    /\ docResult.model = NoModel

(***************************************************************************)
(* TilemapBindGroups::materials.  A texture is known by its version, a     *)
(* bind group by the version of the texture it was created from; created   *)
(* counts the create_bind_group calls made for each material.              *)
(***************************************************************************)
NumMaterials == 2

MaxVersion == 2

MaxCalls == 3

MaterialIds == 1..NumMaterials

NoTexture == 0

NoBindGroup == 0

\* Variant of prepare_materials: the bind group is created on every call.
PrepareMaterials_AlwaysInsert(self, material, texture) ==
    IF texture = NoTexture THEN [self |-> self, returned |-> FALSE]
    ELSE [self |-> [materials |-> [self.materials EXCEPT ![material] = texture],
                    created |-> [self.created EXCEPT ![material] = @ + 1]],
          returned |-> TRUE]

\* prepare_materials; texture is textures_storage.get_texture(material).
PrepareMaterials(self, material, texture) ==
    IF texture = NoTexture THEN [self |-> self, returned |-> FALSE]
    ELSE IF self.materials[material] = NoBindGroup
    THEN [self |-> [materials |-> [self.materials EXCEPT ![material] = texture],
                    created |-> [self.created EXCEPT ![material] = @ + 1]],
          returned |-> TRUE]
    ELSE [self |-> self, returned |-> TRUE]

BgInit ==
    /\ textures \in [MaterialIds -> NoTexture..MaxVersion]
    /\ materials = [m \in MaterialIds |-> NoBindGroup]
    /\ created = [m \in MaterialIds |-> 0]
    /\ calls = 0
    /\ lastCall = [material |-> 0, returned |-> FALSE]
    /\ FiIdle
    /\ RtIdle
    /\ DocIdle

\* One call of prepare_materials for some material.
Prepare ==
    /\ calls < MaxCalls
    /\ \E m \in MaterialIds :
          LET r == PrepareMaterials([materials |-> materials, created |-> created],
                                    m, textures[m])
          IN  /\ materials' = r.self.materials
              /\ created' = r.self.created
              /\ lastCall' = [material |-> m, returned |-> r.returned]
    /\ calls' = calls + 1
    /\ UNCHANGED <<textures, fiVars, rtVars, docVars>>

\* Between calls the texture storage gains, replaces or loses a texture.
TextureChanges ==
    /\ \E m \in MaterialIds : \E v \in NoTexture..MaxVersion :
          /\ v # textures[m]
          /\ textures' = [textures EXCEPT ![m] = v]
    /\ UNCHANGED <<materials, created, calls, lastCall, fiVars, rtVars, docVars>>

BgNext ==
    \/ Prepare
    \/ TextureChanges

SpecBind == BgInit /\ [][BgNext]_vars

(***************************************************************************)
(* C15.  A call for a material without a texture returns false and leaves  *)
(* the cache as it was; a call for a material with a texture returns true  *)
(* and the cache then holds an entry for it; no call replaces or removes   *)
(* an entry the cache holds; so at most one bind group is ever created for *)
(* a material.                                                             *)
(***************************************************************************)
C15_PreparedOnce ==
    /\ [][calls' = calls + 1
             => LET m == lastCall'.material
                IN  /\ textures[m] = NoTexture
                          => (~lastCall'.returned /\ materials' = materials)
                    /\ textures[m] # NoTexture
                          => (lastCall'.returned /\ materials'[m] # NoBindGroup)
                    /\ \A k \in MaterialIds :
                          materials[k] # NoBindGroup => materials'[k] = materials[k]]_vars
    /\ [](\A m \in MaterialIds : created[m] <= 1)

\* Prepared with the first texture, the texture replaced, prepared again:
\* the first bind group is still the entry.
C15_Witness ==
    /\ calls >= 2
    /\ lastCall = [material |-> 1, returned |-> TRUE]
    /\ materials[1] = 1
    /\ textures[1] = 2
    /\ created[1] = 1

====
